---- MODULE Spec2Model ----
(***************************************************************************)
(* The migration runner of pkg/migration/runner.go: Migrate, Rollback,     *)
(* Fresh and Status of several runner processes against one database.      *)
(* Every database call of the runner is one step; the database may reject  *)
(* any of them.                                                            *)
(***************************************************************************)
EXTENDS Integers, Sequences, FiniteSets, Bags, TLC

VARIABLES
    driver,       \* Runner.Driver, the same for every runner of this database
    tableExists,  \* the bookkeeping table "migrations" exists
    rows,         \* its rows, a bag of <<migration id, batch>>
    db,           \* committed effects of migration statements: a set of <<id, n>>
    lockHolder,   \* the session holding the advisory lock, 0 when free
    pc,           \* per process: position in the running call
    op,           \* per process: the public method called
    entries,      \* per process: the call's argument, []MigrationEntry
    applied,      \* per process: the map loaded by applied()
    batch,        \* per process: Migrate's batch / Rollback's maxBatch
    i,            \* per process: index of the entry being processed
    k,            \* per process: index of the statement being executed, or that failed
    tx,           \* per process: a *sql.Tx is open
    txBuf,        \* per process: the statements executed in the open transaction
    log,          \* per process: Migration.Operations of each migration instance
    result,       \* per process: the error returned by the call ("ok" is nil)
    status,       \* per process: the []MigrationStatus returned by Status
    calls,        \* number of calls started so far
    dbBefore,     \* per process: db when the migration being run started
    torn,         \* per process: the entries Fresh's teardown is through with, and
                  \* whether execOps returned nil for them
    lastMigrated, \* per process: the registry of its Migrate that has just returned nil,
                  \* <<>> once another process has acted or it has made another call
    lastApplied,  \* per process: the map that Migrate had loaded, kept as long as
                  \* lastMigrated
    genCall,      \* the call of a method of the runner's SQLGenerator, with its arguments
    genOut,       \* what that call gave: a statement or a panic
    Operations,   \* Migration.Operations of one migration instance
    recorded,     \* the recorder methods called on it since the last Reset, in call order
    files,        \* the migration files of the migrations directory, in directory order
    structs,      \* ScanMigrationStructs: the struct names found so far
    scanned,      \* ScanMigrationStructs: the number of files gone through
    replayed,     \* the inspector program: the struct names whose Up was folded, in order
    insPc,        \* the position of RunSchemaInspector
    tmpDir,       \* the directory .pickle-tmp of the project exists
    insErr,       \* the error RunSchemaInspector returns ("nil" for none)
    router,       \* the routers from the root to a route, and the route: their middleware
    middleware,   \* Route.Middleware of the route as AllRoutes resolves it
    next,         \* RunMiddleware: the chain built so far, then the closure being called
    mwI,          \* RunMiddleware: the index of its loop
    order,        \* what ran for the request, in order
    stack,        \* the middleware that have called next() and wait for it to return
    mwPc,         \* the position of the request
    ident,        \* an identifier handed to qi
    quoted,       \* what qi returned for it
    unquoted,     \* the identifier read back from the quoted form
    qiPc          \* the position of the round trip

\* The variables of the runner and of its database.
runnerVars ==
    <<driver, tableExists, rows, db, lockHolder, pc, op, entries, applied, batch,
      i, k, tx, txBuf, log, result, status, calls, dbBefore, torn, lastMigrated,
      lastApplied>>

\* The variables of the generators, of the recorder and of the inspector.
generatorVars ==
    <<genCall, genOut>>

recorderVars ==
    <<Operations, recorded>>

inspectorVars ==
    <<files, structs, scanned, replayed, insPc, tmpDir, insErr>>

middlewareVars ==
    <<router, middleware, next, mwI, order, stack, mwPc>>

quoteVars ==
    <<ident, quoted, unquoted, qiPc>>

pureVars ==
    <<generatorVars, recorderVars, inspectorVars, middlewareVars, quoteVars>>

vars ==
    <<runnerVars, pureVars>>

-----------------------------------------------------------------------------
(* Bounds and inputs *)

\* Calls of public methods in one run of the model, over all processes.
MaxCalls == 3

\* Recorder calls on one migration instance between two Resets.
MaxOps == 3

\* Migration files in the migrations directory.
MaxFiles == 3

\* Bytes of an identifier handed to qi.
MaxIdent == 4

Procs == {1, 2}

Ids == {"A", "B"}

\* The registries handed to the runner: the registry grows as migrations are authored.
Registries == {<<"A">>, <<"A", "B">>}

Methods == {"Migrate", "Rollback", "Fresh", "Status"}

Drivers == {"postgres", "sqlite", "mysql"}

-----------------------------------------------------------------------------
(* The migrations of the registry *)

\* Number of statements recorded by Up (and by Down) of each migration.
NumStmts(id) ==
    2

\* Migration.Transactional: true unless the migration overrides it.
Transactional(id) ==
    id # "B"

\* The recorder methods Up calls: A renames a table and drops a column of it, B drops
\* a table and adds an index.
UpTypes(id) ==
    IF id = "B" THEN <<"DropTableIfExists", "AddIndex">> ELSE <<"RenameTable", "DropColumn">>

\* The recorder methods Down calls.
DownTypes(id) ==
    IF id = "B"
    THEN <<"DropTableIfExists", "DropTableIfExists">>
    ELSE <<"DropColumn", "RenameTable">>

\* The operations appended by one call of Up.
UpOps(id) ==
    [n \in 1..NumStmts(id) |->
        [dir |-> "up", id |-> id, n |-> n, type |-> UpTypes(id)[n]]]

\* The operations appended by one call of Down: they undo Up's, last first.
DownOps(id) ==
    [n \in 1..NumStmts(id) |->
        [dir |-> "down", id |-> id, n |-> NumStmts(id) + 1 - n, type |-> DownTypes(id)[n]]]

\* A Reset that leaves the log as it is.
Reset_Keeps(ops) ==
    ops

\* Migration.Reset
Reset(ops) ==
    <<>>

\* Up and Down append to the log they find.
Up(ops, id) ==
    ops \o UpOps(id)

Down(ops, id) ==
    ops \o DownOps(id)

\* The effect of one executed statement on the database.
Effect(d, s) ==
    IF s.dir = "up" THEN d \cup {<<s.id, s.n>>} ELSE d \ {<<s.id, s.n>>}

RECURSIVE ApplyAll(_, _)
ApplyAll(d, ss) ==
    IF ss = <<>> THEN d ELSE ApplyAll(Effect(d, Head(ss)), Tail(ss))

-----------------------------------------------------------------------------
(* Helpers *)

IsPostgres(d) ==
    d = "pgsql" \/ d = "postgres"

Max(S) ==
    CHOOSE x \in S : \A y \in S : y <= x

Range(f) ==
    {f[x] : x \in DOMAIN f}

NoMap ==
    [x \in {} |-> 0]

\* Every step of process p is runner activity after the last Migrate of the others.
Noise(p) ==
    /\ lastMigrated' = [q \in Procs |-> IF q = p THEN lastMigrated[q] ELSE <<>>]
    /\ lastApplied' = [q \in Procs |-> IF q = p THEN lastApplied[q] ELSE NoMap]

\* The ids with a bookkeeping row.
RowIds ==
    {r[1] : r \in BagToSet(rows)}

\* applied(): migration -> batch over the rows read; of several rows of one id the one
\* read last stays, and the order of the rows of a SELECT without ORDER BY is any.
AppliedMaps ==
    {m \in [RowIds -> Range([r \in BagToSet(rows) |-> r[2]])] :
        \A id \in RowIds : <<id, m[id]>> \in BagToSet(rows)}

\* The test of Migrate's loop the wrong way round.
IsApplied_Inverted(a, id) ==
    id \notin DOMAIN a

\* The test of Migrate's loop that skips an entry.
IsApplied_Never(a, id) ==
    FALSE

\* Migrate skips the entries found in the map loaded by applied().
IsApplied(a, id) ==
    id \in DOMAIN a

\* The greatest batch returned as it is.
nextBatch_NoIncrement(a) ==
    Max(Range(a) \cup {0})

nextBatch(a) ==
    Max(Range(a) \cup {0}) + 1

\* A comparison the wrong way round: the smallest batch instead of the greatest.
maxBatch_Smallest(a) ==
    IF a = NoMap THEN 0 ELSE CHOOSE x \in Range(a) : \A y \in Range(a) : x <= y

maxBatch(a) ==
    Max(Range(a) \cup {0})

-----------------------------------------------------------------------------
(* The SQL generators *)

\* Table and column names handed to the generators.
Names == {"posts", "users"}

\* The methods of SQLGenerator.
GeneratorMethods ==
    {"CreateTable", "DropTableIfExists", "AddColumn", "DropColumn", "RenameColumn",
     "AddIndex", "RenameTable"}

\* NewRunner: the generator of a driver.
GeneratorOf(d) ==
    IF IsPostgres(d) THEN "postgres" ELSE IF d = "mysql" THEN "mysql" ELSE "sqlite"

\* A method of a generator returns a string, here the pieces Sprintf joins, or panics.
Sql(pieces) ==
    [panic |-> FALSE, sql |-> pieces]

Panic(msg) ==
    [panic |-> TRUE, msg |-> msg]

sqliteCreateTable(t) ==
    Panic("sqlite migration generator not yet implemented")

sqliteDropTableIfExists(name) ==
    Sql(<<"DROP TABLE IF EXISTS ", name>>)

sqliteAddColumn(table, col) ==
    Panic("sqlite migration generator not yet implemented")

\* A DROP COLUMN copied from the MySQL generator.
sqliteDropColumn_Emits(table, column) ==
    Sql(<<"ALTER TABLE ", table, " DROP COLUMN ", column>>)

sqliteDropColumn(table, column) ==
    Panic("sqlite: DROP COLUMN requires recreating the table")

sqliteRenameColumn(table, oldName, newName) ==
    Sql(<<"ALTER TABLE ", table, " RENAME COLUMN ", oldName, " TO ", newName>>)

sqliteAddIndex(table, column) ==
    Panic("sqlite migration generator not yet implemented")

sqliteRenameTable(oldName, newName) ==
    Sql(<<"ALTER TABLE ", oldName, " RENAME TO ", newName>>)

mysqlCreateTable(t) ==
    Panic("mysql migration generator not yet implemented")

mysqlDropTableIfExists(name) ==
    Sql(<<"DROP TABLE IF EXISTS ", name>>)

mysqlAddColumn(table, col) ==
    Panic("mysql migration generator not yet implemented")

mysqlDropColumn(table, column) ==
    Sql(<<"ALTER TABLE ", table, " DROP COLUMN ", column>>)

mysqlRenameColumn(table, oldName, newName) ==
    Sql(<<"ALTER TABLE ", table, " RENAME COLUMN ", oldName, " TO ", newName>>)

mysqlAddIndex(table, column) ==
    Panic("mysql migration generator not yet implemented")

mysqlRenameTable(oldName, newName) ==
    Sql(<<"RENAME TABLE ", oldName, " TO ", newName>>)

\* The Postgres generator returns a statement for every method; of its text only the
\* method and the names are kept here.
postgresGenerator(method, table, a, b) ==
    Sql(<<method, table, a, b>>)

\* r.Generator.<method>(...): the call of a method through the SQLGenerator interface.
Generate(g, method, table, a, b) ==
    IF g = "postgres" THEN postgresGenerator(method, table, a, b)
    ELSE IF g = "mysql"
    THEN CASE method = "CreateTable" -> mysqlCreateTable(table)
           [] method = "DropTableIfExists" -> mysqlDropTableIfExists(table)
           [] method = "AddColumn" -> mysqlAddColumn(table, a)
           [] method = "DropColumn" -> mysqlDropColumn(table, a)
           [] method = "RenameColumn" -> mysqlRenameColumn(table, a, b)
           [] method = "AddIndex" -> mysqlAddIndex(table, a)
           [] method = "RenameTable" -> mysqlRenameTable(table, a)
    ELSE CASE method = "CreateTable" -> sqliteCreateTable(table)
           [] method = "DropTableIfExists" -> sqliteDropTableIfExists(table)
           [] method = "AddColumn" -> sqliteAddColumn(table, a)
           [] method = "DropColumn" -> sqliteDropColumn(table, a)
           [] method = "RenameColumn" -> sqliteRenameColumn(table, a, b)
           [] method = "AddIndex" -> sqliteAddIndex(table, a)
           [] method = "RenameTable" -> sqliteRenameTable(table, a)

\* The table an operation of a migration is about.
TableOf(id) ==
    IF id = "B" THEN "users" ELSE "posts"

\* The generator method behind an operation type.
MethodOf(type) ==
    IF type = "AddUniqueIndex" THEN "AddIndex" ELSE type

\* An AddIndex with an empty string for the statement not implemented.
opsToSQL_Blank(g, s) ==
    LET out == Generate(g, MethodOf(s.type), TableOf(s.id), "posts", "users")
    IN  IF out.panic THEN Sql(<<>>) ELSE out

\* opsToSQL: the statement of an operation, by the generator method of its type; the
\* operations of the model give one statement each.
opsToSQL(g, s) ==
    Generate(g, MethodOf(s.type), TableOf(s.id), "posts", "users")

-----------------------------------------------------------------------------
(* Initial state: NewRunner over a database no runner has touched yet *)

\* No generator call is under way.
GeneratorIdle ==
    /\ genCall = [method |-> "none"]
    /\ genOut = [done |-> FALSE]

\* No migration instance is being recorded.
RecorderIdle ==
    /\ Operations = <<>>
    /\ recorded = <<>>

\* No inspection is under way.
InspectorIdle ==
    /\ files = <<>>
    /\ structs = <<>>
    /\ scanned = 0
    /\ replayed = <<>>
    /\ insPc = "none"
    /\ tmpDir = FALSE
    /\ insErr = "none"

\* No request is being served.
MiddlewareIdle ==
    /\ router = [groups |-> <<>>, route |-> <<>>, stop |-> "none"]
    /\ middleware = <<>>
    /\ next = <<>>
    /\ mwI = 0
    /\ order = <<>>
    /\ stack = <<>>
    /\ mwPc = "none"

\* No identifier is being quoted.
QuoteIdle ==
    /\ ident = <<>>
    /\ quoted = <<>>
    /\ unquoted = <<>>
    /\ qiPc = "none"

\* No process has called the runner yet.
ProcessesIdle ==
    /\ pc = [p \in Procs |-> "idle"]
    /\ op = [p \in Procs |-> "none"]
    /\ entries = [p \in Procs |-> <<>>]
    /\ applied = [p \in Procs |-> NoMap]
    /\ batch = [p \in Procs |-> 0]
    /\ i = [p \in Procs |-> 0]
    /\ k = [p \in Procs |-> 0]
    /\ tx = [p \in Procs |-> FALSE]
    /\ txBuf = [p \in Procs |-> <<>>]
    /\ log = [p \in Procs |-> [id \in Ids |-> <<>>]]
    /\ result = [p \in Procs |-> "none"]
    /\ status = [p \in Procs |-> <<>>]
    /\ calls = 0
    /\ dbBefore = [p \in Procs |-> {}]
    /\ torn = [p \in Procs |-> <<>>]
    /\ lastMigrated = [p \in Procs |-> <<>>]
    /\ lastApplied = [p \in Procs |-> NoMap]

RunnerInit ==
    /\ driver \in Drivers
    /\ tableExists = FALSE
    /\ rows = EmptyBag
    /\ db = {}
    /\ lockHolder = 0
    /\ ProcessesIdle

Init ==
    /\ RunnerInit
    /\ GeneratorIdle
    /\ RecorderIdle
    /\ InspectorIdle
    /\ MiddlewareIdle
    /\ QuoteIdle

-----------------------------------------------------------------------------
(* The database calls shared by the public methods *)

Goto(p, l) ==
    pc' = [pc EXCEPT ![p] = l]

\* Where Migrate returns to: its caller is the program, or Fresh.
MigrateCaller(p) ==
    IF op[p] = "Fresh" THEN "f_ret" ELSE "exit"

\* ensureMigrationsTable: CREATE TABLE IF NOT EXISTS migrations
ensureMigrationsTable(p, ok) ==
    /\ tableExists' = (tableExists \/ ok)

\* A lock request that does not wait, its answer ignored.
acquireLock_NoWait(p, ok) ==
    IF IsPostgres(driver)
    THEN lockHolder' = IF ok /\ lockHolder = 0 THEN p ELSE lockHolder
    ELSE ok /\ UNCHANGED lockHolder

\* acquireLock: SELECT pg_advisory_lock(20260101), which waits while another
\* session holds the lock; a no-op that cannot fail with the other drivers.
acquireLock(p, ok) ==
    IF IsPostgres(driver)
    THEN /\ ok => lockHolder \in {0, p}
         /\ lockHolder' = IF ok THEN p ELSE lockHolder
    ELSE /\ ok
         /\ UNCHANGED lockHolder

\* A release at the end of the method instead of a deferred one: it is skipped when
\* the method returns an error.
releaseLock_OnSuccess(p) ==
    IF IsPostgres(driver) /\ result[p] \in {"ok", "none"}
    THEN lockHolder' = IF lockHolder = p THEN 0 ELSE lockHolder
    ELSE UNCHANGED lockHolder

\* releaseLock: SELECT pg_advisory_unlock(20260101), its outcome ignored; the unlock
\* of a lock the session does not hold changes nothing.
releaseLock(p) ==
    IF IsPostgres(driver)
    THEN /\ lockHolder' = IF lockHolder = p THEN 0 ELSE lockHolder
    ELSE UNCHANGED lockHolder

\* The statements sent to a transaction whether or not the migration has one.
execOps_AllInTx(p, s, inTx, ok) ==
    IF opsToSQL(GeneratorOf(driver), s).sql = <<>>
    THEN /\ ok
         /\ UNCHANGED <<txBuf, db>>
    ELSE /\ txBuf' = [txBuf EXCEPT ![p] = IF ok THEN Append(@, s) ELSE @]
         /\ db' = db

\* execOps, one statement of the log of the current entry: in the transaction when
\* there is one, directly otherwise. A failing statement has no effect, and an empty
\* statement is passed over.
execOps(p, s, inTx, ok) ==
    IF opsToSQL(GeneratorOf(driver), s).sql = <<>>
    THEN /\ ok
         /\ UNCHANGED <<txBuf, db>>
    ELSE /\ txBuf' = [txBuf EXCEPT ![p] = IF ok /\ inTx THEN Append(@, s) ELSE @]
         /\ db' = IF ok /\ ~inTx THEN Effect(db, s) ELSE db

\* A Commit that leaves the transaction open.
Commit_LeavesOpen(p, ok) ==
    /\ db' = IF ok THEN ApplyAll(db, txBuf[p]) ELSE db
    /\ UNCHANGED <<tx, txBuf>>

\* tx.Commit: the statements of the transaction take effect together, or not at all.
Commit(p, ok) ==
    /\ db' = IF ok THEN ApplyAll(db, txBuf[p]) ELSE db
    /\ tx' = [tx EXCEPT ![p] = FALSE]
    /\ txBuf' = [txBuf EXCEPT ![p] = <<>>]

\* The failure path ends the transaction with Commit instead of Rollback.
TxRollback_Commits(p) ==
    /\ db' = ApplyAll(db, txBuf[p])
    /\ tx' = [tx EXCEPT ![p] = FALSE]
    /\ txBuf' = [txBuf EXCEPT ![p] = <<>>]

\* tx.Rollback: the statements of the transaction are discarded.
TxRollback(p) ==
    /\ db' = db
    /\ tx' = [tx EXCEPT ![p] = FALSE]
    /\ txBuf' = [txBuf EXCEPT ![p] = <<>>]

\* The row is written with the batch after the one of this call.
InsertRow_NextBatch(p, id, b, ok) ==
    /\ ok => tableExists
    /\ rows' = IF ok THEN rows (+) SetToBag({<<id, b + 1>>}) ELSE rows

\* INSERT INTO migrations (migration, batch): fails when the table is gone.
InsertRow(p, id, b, ok) ==
    /\ ok => tableExists
    /\ rows' = IF ok THEN rows (+) SetToBag({<<id, b>>}) ELSE rows

\* A DELETE whose WHERE clause matches no row.
DeleteRows_Kept(p, id, ok) ==
    /\ ok => tableExists
    /\ rows' = rows

\* DELETE FROM migrations WHERE migration = id: every row of the id goes.
DeleteRows(p, id, ok) ==
    /\ ok => tableExists
    /\ rows' = IF ok
               THEN [r \in {x \in DOMAIN rows : x[1] # id} |-> rows[r]]
               ELSE rows

\* The call returns and the command ends: the next command of this terminal is a new
\* run of the program, with new migration instances. A transaction a panic left open
\* ends with the connection, its statements discarded.
Exit(p) ==
    /\ pc[p] = "exit"
    /\ UNCHANGED pureVars
    /\ Goto(p, "idle")
    /\ lastMigrated' = [q \in Procs |->
            IF q = p /\ op[p] = "Migrate" /\ result[p] = "ok" THEN lastMigrated[p] ELSE <<>>]
    /\ lastApplied' = [q \in Procs |->
            IF q = p /\ op[p] = "Migrate" /\ result[p] = "ok" THEN lastApplied[p] ELSE NoMap]
    /\ op' = [op EXCEPT ![p] = "none"]
    /\ entries' = [entries EXCEPT ![p] = <<>>]
    /\ applied' = [applied EXCEPT ![p] = NoMap]
    /\ batch' = [batch EXCEPT ![p] = 0]
    /\ i' = [i EXCEPT ![p] = 0]
    /\ k' = [k EXCEPT ![p] = 0]
    /\ result' = [result EXCEPT ![p] = "none"]
    /\ status' = [status EXCEPT ![p] = <<>>]
    /\ dbBefore' = [dbBefore EXCEPT ![p] = {}]
    /\ torn' = [torn EXCEPT ![p] = <<>>]
    /\ log' = [log EXCEPT ![p] = [id \in Ids |-> <<>>]]
    /\ tx' = [tx EXCEPT ![p] = FALSE]
    /\ txBuf' = [txBuf EXCEPT ![p] = <<>>]
    /\ UNCHANGED <<driver, tableExists, rows, db, lockHolder, calls>>

\* The program calls a public method of its Runner with a registry.
Call(p) ==
    /\ pc[p] = "idle"
    /\ UNCHANGED pureVars
    /\ calls < MaxCalls
    /\ \E m \in Methods, e \in Registries :
        /\ op' = [op EXCEPT ![p] = m]
        /\ entries' = [entries EXCEPT ![p] = e]
        /\ Goto(p, CASE m = "Migrate" -> "m_ensure"
                     [] m = "Rollback" -> "r_ensure"
                     [] m = "Fresh" -> "f_ensure"
                     [] m = "Status" -> "s_ensure")
    /\ calls' = calls + 1
    /\ Noise(p)
    /\ UNCHANGED <<dbBefore, torn>>
    /\ UNCHANGED <<driver, tableExists, rows, db, lockHolder, applied, batch, i, k,
                   tx, txBuf, log, result, status>>

-----------------------------------------------------------------------------
(* Migrate *)

MigrateEnsure(p) ==
    /\ pc[p] = "m_ensure"
    /\ UNCHANGED pureVars
    /\ \E ok \in BOOLEAN :
        /\ ensureMigrationsTable(p, ok)
        /\ IF ok
           THEN Goto(p, "m_lock") /\ UNCHANGED result
           ELSE Goto(p, MigrateCaller(p)) /\ result' = [result EXCEPT ![p] = "err_ensure"]
    /\ Noise(p)
    /\ UNCHANGED <<dbBefore, torn>>
    /\ UNCHANGED <<driver, rows, db, lockHolder, op, entries, applied, batch, i, k,
                   tx, txBuf, log, status, calls>>

MigrateLock(p) ==
    /\ pc[p] = "m_lock"
    /\ UNCHANGED pureVars
    /\ \E ok \in BOOLEAN :
        /\ acquireLock(p, ok)
        /\ IF ok
           THEN Goto(p, "m_load") /\ UNCHANGED result
           ELSE Goto(p, MigrateCaller(p)) /\ result' = [result EXCEPT ![p] = "err_lock"]
    /\ Noise(p)
    /\ UNCHANGED <<dbBefore, torn>>
    /\ UNCHANGED <<driver, tableExists, rows, db, op, entries, applied, batch, i, k,
                   tx, txBuf, log, status, calls>>

\* applied() and nextBatch; the query fails when the table is gone.
MigrateLoad(p) ==
    /\ pc[p] = "m_load"
    /\ UNCHANGED pureVars
    /\ \/ /\ tableExists
          /\ \E a \in AppliedMaps :
              /\ applied' = [applied EXCEPT ![p] = a]
              /\ batch' = [batch EXCEPT ![p] = nextBatch(a)]
          /\ i' = [i EXCEPT ![p] = 1]
          /\ Goto(p, "m_loop")
          /\ UNCHANGED result
       \/ /\ result' = [result EXCEPT ![p] = "err_load"]
          /\ Goto(p, "m_ret")
          /\ UNCHANGED <<applied, batch, i>>
    /\ Noise(p)
    /\ UNCHANGED <<dbBefore, torn>>
    /\ UNCHANGED <<driver, tableExists, rows, db, lockHolder, op, entries, k,
                   tx, txBuf, log, status, calls>>

\* The head of the loop over the entries, up to runMigration's DB.Begin.
MigrateLoop(p) ==
    /\ pc[p] = "m_loop"
    /\ UNCHANGED pureVars
    /\ IF i[p] > Len(entries[p])
       THEN /\ result' = [result EXCEPT ![p] = "ok"]
            /\ Goto(p, "m_ret")
            /\ UNCHANGED <<i, k, tx, log, dbBefore>>
       ELSE LET id == entries[p][i[p]] IN
            IF IsApplied(applied[p], id)
            THEN /\ i' = [i EXCEPT ![p] = @ + 1]
                 /\ UNCHANGED <<pc, k, tx, log, result, dbBefore>>
            ELSE /\ log' = [log EXCEPT ![p][id] = Up(Reset(@), id)]
                 /\ dbBefore' = [dbBefore EXCEPT ![p] = db]
                 /\ IF Transactional(id)
                    THEN \E ok \in BOOLEAN :
                        /\ tx' = [tx EXCEPT ![p] = ok]
                        /\ IF ok
                           THEN /\ k' = [k EXCEPT ![p] = 1]
                                /\ Goto(p, "m_exec")
                                /\ UNCHANGED result
                           ELSE /\ result' = [result EXCEPT ![p] = "err_migrating"]
                                /\ Goto(p, "m_ret")
                                /\ UNCHANGED k
                    ELSE /\ k' = [k EXCEPT ![p] = 1]
                         /\ Goto(p, "m_exec")
                         /\ UNCHANGED <<tx, result>>
                 /\ UNCHANGED i
    /\ Noise(p)
    /\ UNCHANGED torn
    /\ UNCHANGED <<driver, tableExists, rows, db, lockHolder, op, entries, applied,
                   batch, txBuf, status, calls>>

\* runMigration's execOps, one statement a step; the failure of a statement rolls the
\* transaction back and ends Migrate. A panic of the generator unwinds Migrate: only
\* its deferred call runs, and the transaction is left as it is.
MigrateExec(p) ==
    /\ pc[p] = "m_exec"
    /\ UNCHANGED pureVars
    /\ LET id == entries[p][i[p]]
           ops == log[p][id]
       IN  IF opsToSQL(GeneratorOf(driver), ops[k[p]]).panic
           THEN /\ result' = [result EXCEPT ![p] = "panic"]
                /\ Goto(p, "m_ret")
                /\ UNCHANGED <<k, db, txBuf>>
           ELSE \E ok \in BOOLEAN :
            /\ execOps(p, ops[k[p]], tx[p], ok)
            /\ IF ok
               THEN /\ IF k[p] < Len(ops)
                       THEN /\ k' = [k EXCEPT ![p] = @ + 1]
                            /\ UNCHANGED pc
                       ELSE /\ k' = [k EXCEPT ![p] = 0]
                            /\ Goto(p, IF tx[p] THEN "m_commit" ELSE "m_insert")
                    /\ UNCHANGED result
               ELSE /\ result' = [result EXCEPT ![p] = "err_migrating"]
                    /\ Goto(p, IF tx[p] THEN "m_rollback" ELSE "m_ret")
                    /\ UNCHANGED k
    /\ Noise(p)
    /\ UNCHANGED <<dbBefore, torn>>
    /\ UNCHANGED <<driver, tableExists, rows, lockHolder, op, entries, applied, batch,
                   i, tx, log, status, calls>>

\* tx.Rollback after a failed statement.
MigrateRollbackTx(p) ==
    /\ pc[p] = "m_rollback"
    /\ UNCHANGED pureVars
    /\ TxRollback(p)
    /\ Goto(p, "m_ret")
    /\ Noise(p)
    /\ UNCHANGED <<dbBefore, torn>>
    /\ UNCHANGED <<driver, tableExists, rows, lockHolder, op, entries, applied, batch,
                   i, k, log, result, status, calls>>

\* tx.Commit after the last statement.
MigrateCommit(p) ==
    /\ pc[p] = "m_commit"
    /\ UNCHANGED pureVars
    /\ \E ok \in BOOLEAN :
        /\ Commit(p, ok)
        /\ IF ok
           THEN Goto(p, "m_insert") /\ UNCHANGED result
           ELSE Goto(p, "m_ret") /\ result' = [result EXCEPT ![p] = "err_migrating"]
    /\ Noise(p)
    /\ UNCHANGED <<dbBefore, torn>>
    /\ UNCHANGED <<driver, tableExists, rows, lockHolder, op, entries, applied, batch,
                   i, k, log, status, calls>>

\* The bookkeeping row of the migration just run, tagged with the batch.
MigrateInsert(p) ==
    /\ pc[p] = "m_insert"
    /\ UNCHANGED pureVars
    /\ \E ok \in BOOLEAN :
        /\ InsertRow(p, entries[p][i[p]], batch[p], ok)
        /\ IF ok
           THEN /\ i' = [i EXCEPT ![p] = @ + 1]
                /\ Goto(p, "m_loop")
                /\ UNCHANGED result
           ELSE /\ result' = [result EXCEPT ![p] = "err_recording"]
                /\ Goto(p, "m_ret")
                /\ UNCHANGED i
    /\ Noise(p)
    /\ UNCHANGED <<dbBefore, torn>>
    /\ UNCHANGED <<driver, tableExists, db, lockHolder, op, entries, applied, batch,
                   k, tx, txBuf, log, status, calls>>

\* Migrate returns: its deferred releaseLock runs.
MigrateReturn(p) ==
    /\ pc[p] = "m_ret"
    /\ UNCHANGED pureVars
    /\ releaseLock(p)
    /\ Goto(p, MigrateCaller(p))
    /\ lastMigrated' = [q \in Procs |->
            IF q = p /\ op[p] = "Migrate" /\ result[p] = "ok" THEN entries[p] ELSE <<>>]
    /\ lastApplied' = [q \in Procs |->
            IF q = p /\ op[p] = "Migrate" /\ result[p] = "ok" THEN applied[p] ELSE NoMap]
    /\ UNCHANGED <<dbBefore, torn>>
    /\ UNCHANGED <<driver, tableExists, rows, db, op, entries, applied, batch, i, k,
                   tx, txBuf, log, result, status, calls>>

-----------------------------------------------------------------------------
(* Rollback *)

RollbackEnsure(p) ==
    /\ pc[p] = "r_ensure"
    /\ UNCHANGED pureVars
    /\ \E ok \in BOOLEAN :
        /\ ensureMigrationsTable(p, ok)
        /\ IF ok
           THEN Goto(p, "r_lock") /\ UNCHANGED result
           ELSE Goto(p, "exit") /\ result' = [result EXCEPT ![p] = "err_ensure"]
    /\ Noise(p)
    /\ UNCHANGED <<dbBefore, torn>>
    /\ UNCHANGED <<driver, rows, db, lockHolder, op, entries, applied, batch, i, k,
                   tx, txBuf, log, status, calls>>

RollbackLock(p) ==
    /\ pc[p] = "r_lock"
    /\ UNCHANGED pureVars
    /\ \E ok \in BOOLEAN :
        /\ acquireLock(p, ok)
        /\ IF ok
           THEN Goto(p, "r_load") /\ UNCHANGED result
           ELSE Goto(p, "exit") /\ result' = [result EXCEPT ![p] = "err_lock"]
    /\ Noise(p)
    /\ UNCHANGED <<dbBefore, torn>>
    /\ UNCHANGED <<driver, tableExists, rows, db, op, entries, applied, batch, i, k,
                   tx, txBuf, log, status, calls>>

\* applied() and the maximum batch; nothing to roll back when it is 0.
RollbackLoad(p) ==
    /\ pc[p] = "r_load"
    /\ UNCHANGED pureVars
    /\ \/ /\ tableExists
          /\ \E a \in AppliedMaps :
              /\ applied' = [applied EXCEPT ![p] = a]
              /\ batch' = [batch EXCEPT ![p] = maxBatch(a)]
              /\ IF maxBatch(a) = 0
                 THEN /\ result' = [result EXCEPT ![p] = "ok"]
                      /\ Goto(p, "r_ret")
                      /\ UNCHANGED i
                 ELSE /\ i' = [i EXCEPT ![p] = Len(entries[p])]
                      /\ Goto(p, "r_loop")
                      /\ UNCHANGED result
       \/ /\ result' = [result EXCEPT ![p] = "err_load"]
          /\ Goto(p, "r_ret")
          /\ UNCHANGED <<applied, batch, i>>
    /\ Noise(p)
    /\ UNCHANGED <<dbBefore, torn>>
    /\ UNCHANGED <<driver, tableExists, rows, db, lockHolder, op, entries, k,
                   tx, txBuf, log, status, calls>>

\* The head of the loop over the entries, last first, up to rollbackMigration's Begin.
RollbackLoop(p) ==
    /\ pc[p] = "r_loop"
    /\ UNCHANGED pureVars
    /\ IF i[p] < 1
       THEN /\ result' = [result EXCEPT ![p] = "ok"]
            /\ Goto(p, "r_ret")
            /\ UNCHANGED <<i, k, tx, log>>
       ELSE LET id == entries[p][i[p]] IN
            IF id \notin DOMAIN applied[p] \/ applied[p][id] # batch[p]
            THEN /\ i' = [i EXCEPT ![p] = @ - 1]
                 /\ UNCHANGED <<pc, k, tx, log, result>>
            ELSE /\ log' = [log EXCEPT ![p][id] = Down(Reset(@), id)]
                 /\ IF Transactional(id)
                    THEN \E ok \in BOOLEAN :
                        /\ tx' = [tx EXCEPT ![p] = ok]
                        /\ IF ok
                           THEN /\ k' = [k EXCEPT ![p] = 1]
                                /\ Goto(p, "r_exec")
                                /\ UNCHANGED result
                           ELSE /\ result' = [result EXCEPT ![p] = "err_rolling_back"]
                                /\ Goto(p, "r_ret")
                                /\ UNCHANGED k
                    ELSE /\ k' = [k EXCEPT ![p] = 1]
                         /\ Goto(p, "r_exec")
                         /\ UNCHANGED <<tx, result>>
                 /\ UNCHANGED i
    /\ Noise(p)
    /\ UNCHANGED <<dbBefore, torn>>
    /\ UNCHANGED <<driver, tableExists, rows, db, lockHolder, op, entries, applied,
                   batch, txBuf, status, calls>>

RollbackExec(p) ==
    /\ pc[p] = "r_exec"
    /\ UNCHANGED pureVars
    /\ LET id == entries[p][i[p]]
           ops == log[p][id]
       IN  IF opsToSQL(GeneratorOf(driver), ops[k[p]]).panic
           THEN /\ result' = [result EXCEPT ![p] = "panic"]
                /\ Goto(p, "r_ret")
                /\ UNCHANGED <<k, db, txBuf>>
           ELSE \E ok \in BOOLEAN :
            /\ execOps(p, ops[k[p]], tx[p], ok)
            /\ IF ok
               THEN /\ IF k[p] < Len(ops)
                       THEN /\ k' = [k EXCEPT ![p] = @ + 1]
                            /\ UNCHANGED pc
                       ELSE /\ k' = [k EXCEPT ![p] = 0]
                            /\ Goto(p, IF tx[p] THEN "r_commit" ELSE "r_delete")
                    /\ UNCHANGED result
               ELSE /\ result' = [result EXCEPT ![p] = "err_rolling_back"]
                    /\ Goto(p, IF tx[p] THEN "r_rollback" ELSE "r_ret")
                    /\ UNCHANGED k
    /\ Noise(p)
    /\ UNCHANGED <<dbBefore, torn>>
    /\ UNCHANGED <<driver, tableExists, rows, lockHolder, op, entries, applied, batch,
                   i, tx, log, status, calls>>

RollbackRollbackTx(p) ==
    /\ pc[p] = "r_rollback"
    /\ UNCHANGED pureVars
    /\ TxRollback(p)
    /\ Goto(p, "r_ret")
    /\ Noise(p)
    /\ UNCHANGED <<dbBefore, torn>>
    /\ UNCHANGED <<driver, tableExists, rows, lockHolder, op, entries, applied, batch,
                   i, k, log, result, status, calls>>

RollbackCommit(p) ==
    /\ pc[p] = "r_commit"
    /\ UNCHANGED pureVars
    /\ \E ok \in BOOLEAN :
        /\ Commit(p, ok)
        /\ IF ok
           THEN Goto(p, "r_delete") /\ UNCHANGED result
           ELSE Goto(p, "r_ret") /\ result' = [result EXCEPT ![p] = "err_rolling_back"]
    /\ Noise(p)
    /\ UNCHANGED <<dbBefore, torn>>
    /\ UNCHANGED <<driver, tableExists, rows, lockHolder, op, entries, applied, batch,
                   i, k, log, status, calls>>

\* The bookkeeping row of the migration just reverted goes.
RollbackDelete(p) ==
    /\ pc[p] = "r_delete"
    /\ UNCHANGED pureVars
    /\ \E ok \in BOOLEAN :
        /\ DeleteRows(p, entries[p][i[p]], ok)
        /\ IF ok
           THEN /\ i' = [i EXCEPT ![p] = @ - 1]
                /\ Goto(p, "r_loop")
                /\ UNCHANGED result
           ELSE /\ result' = [result EXCEPT ![p] = "err_removing"]
                /\ Goto(p, "r_ret")
                /\ UNCHANGED i
    /\ Noise(p)
    /\ UNCHANGED <<dbBefore, torn>>
    /\ UNCHANGED <<driver, tableExists, db, lockHolder, op, entries, applied, batch,
                   k, tx, txBuf, log, status, calls>>

\* Rollback returns: its deferred releaseLock runs.
RollbackReturn(p) ==
    /\ pc[p] = "r_ret"
    /\ UNCHANGED pureVars
    /\ releaseLock(p)
    /\ Goto(p, "exit")
    /\ Noise(p)
    /\ UNCHANGED <<dbBefore, torn>>
    /\ UNCHANGED <<driver, tableExists, rows, db, op, entries, applied, batch, i, k,
                   tx, txBuf, log, result, status, calls>>

-----------------------------------------------------------------------------
(* Fresh *)

FreshEnsure(p) ==
    /\ pc[p] = "f_ensure"
    /\ UNCHANGED pureVars
    /\ \E ok \in BOOLEAN :
        /\ ensureMigrationsTable(p, ok)
        /\ IF ok
           THEN Goto(p, "f_lock") /\ UNCHANGED result
           ELSE Goto(p, "exit") /\ result' = [result EXCEPT ![p] = "err_ensure"]
    /\ Noise(p)
    /\ UNCHANGED <<dbBefore, torn>>
    /\ UNCHANGED <<driver, rows, db, lockHolder, op, entries, applied, batch, i, k,
                   tx, txBuf, log, status, calls>>

FreshLock(p) ==
    /\ pc[p] = "f_lock"
    /\ UNCHANGED pureVars
    /\ \E ok \in BOOLEAN :
        /\ acquireLock(p, ok)
        /\ IF ok
           THEN /\ Goto(p, "f_loop")
                /\ i' = [i EXCEPT ![p] = Len(entries[p])]
                /\ UNCHANGED result
           ELSE /\ Goto(p, "exit")
                /\ result' = [result EXCEPT ![p] = "err_lock"]
                /\ UNCHANGED i
    /\ Noise(p)
    /\ UNCHANGED <<dbBefore, torn>>
    /\ UNCHANGED <<driver, tableExists, rows, db, op, entries, applied, batch, k,
                   tx, txBuf, log, status, calls>>

\* The head of the teardown loop over the entries, last first: Reset and Down.
FreshLoop(p) ==
    /\ pc[p] = "f_loop"
    /\ UNCHANGED pureVars
    /\ IF i[p] < 1
       THEN /\ Goto(p, "f_drop")
            /\ UNCHANGED <<k, log, torn>>
       ELSE /\ log' = [log EXCEPT ![p][entries[p][i[p]]] = Down(Reset(@), entries[p][i[p]])]
            /\ k' = [k EXCEPT ![p] = 1]
            /\ Goto(p, "f_exec")
            /\ UNCHANGED torn
    /\ Noise(p)
    /\ UNCHANGED dbBefore
    /\ UNCHANGED <<driver, tableExists, rows, db, lockHolder, op, entries, applied,
                   batch, i, tx, txBuf, result, status, calls>>

\* The error of the teardown's execOps returned instead of dropped.
FreshNext_Abort(p, ok) ==
    IF ~ok THEN "f_ret"
    ELSE IF k[p] < Len(log[p][entries[p][i[p]]]) THEN "f_exec" ELSE "f_loop"

\* Where the teardown goes after a statement: to the next statement of the entry, or,
\* when the entry's statements are through or one has failed, on with the loop.
FreshNext(p, ok) ==
    IF ok /\ k[p] < Len(log[p][entries[p][i[p]]]) THEN "f_exec" ELSE "f_loop"

\* The teardown's execOps with no transaction, its error dropped: a failing statement
\* ends the statements of this entry, and the loop goes on with the entry before. A
\* panic of the generator is no error value: it unwinds Fresh.
FreshExec(p) ==
    /\ pc[p] = "f_exec"
    /\ UNCHANGED pureVars
    /\ LET id == entries[p][i[p]]
           ops == log[p][id]
       IN  IF opsToSQL(GeneratorOf(driver), ops[k[p]]).panic
           THEN /\ result' = [result EXCEPT ![p] = "panic"]
                /\ Goto(p, "f_ret")
                /\ UNCHANGED <<i, k, db, txBuf, log, torn>>
           ELSE \E ok \in BOOLEAN :
            /\ execOps(p, ops[k[p]], FALSE, ok)
            /\ Goto(p, FreshNext(p, ok))
            /\ UNCHANGED result
            /\ IF FreshNext(p, ok) = "f_exec"
               THEN /\ k' = [k EXCEPT ![p] = @ + 1]
                    /\ UNCHANGED <<i, log, torn>>
               ELSE /\ k' = [k EXCEPT ![p] = 0]
                    /\ log' = [log EXCEPT ![p][id] = Reset(@)]
                    /\ torn' = [torn EXCEPT ![p] = Append(@, [id |-> id, ok |-> ok])]
                    /\ i' = [i EXCEPT ![p] = @ - 1]
    /\ Noise(p)
    /\ UNCHANGED dbBefore
    /\ UNCHANGED <<driver, tableExists, rows, lockHolder, op, entries, applied, batch,
                   tx, status, calls>>

\* DROP TABLE IF EXISTS migrations, its outcome ignored.
FreshDrop(p) ==
    /\ pc[p] = "f_drop"
    /\ UNCHANGED pureVars
    /\ \E ok \in BOOLEAN :
        /\ tableExists' = (tableExists /\ ~ok)
        /\ rows' = IF ok THEN EmptyBag ELSE rows
    /\ Goto(p, "f_release")
    /\ Noise(p)
    /\ UNCHANGED <<dbBefore, torn>>
    /\ UNCHANGED <<driver, db, lockHolder, op, entries, applied, batch, i, k,
                   tx, txBuf, log, result, status, calls>>

\* The lock is released before Migrate is called.
FreshRelease(p) ==
    /\ pc[p] = "f_release"
    /\ UNCHANGED pureVars
    /\ releaseLock(p)
    /\ Goto(p, "m_ensure")
    /\ torn' = [torn EXCEPT ![p] = <<>>]
    /\ Noise(p)
    /\ UNCHANGED dbBefore
    /\ UNCHANGED <<driver, tableExists, rows, db, op, entries, applied, batch, i, k,
                   tx, txBuf, log, result, status, calls>>

\* Fresh returns what Migrate returned: its deferred releaseLock runs.
FreshReturn(p) ==
    /\ pc[p] = "f_ret"
    /\ UNCHANGED pureVars
    /\ releaseLock(p)
    /\ Goto(p, "exit")
    /\ Noise(p)
    /\ UNCHANGED <<dbBefore, torn>>
    /\ UNCHANGED <<driver, tableExists, rows, db, op, entries, applied, batch, i, k,
                   tx, txBuf, log, result, status, calls>>

-----------------------------------------------------------------------------
(* Status *)

\* The loop of Status with the batch of an applied entry left at its zero value.
RECURSIVE StatusLoop_NoBatch(_, _, _)
StatusLoop_NoBatch(es, a, acc) ==
    IF es = <<>>
    THEN acc
    ELSE StatusLoop_NoBatch(Tail(es), a,
            Append(acc, [id |-> Head(es), batch |-> 0, applied |-> Head(es) \in DOMAIN a]))

\* The loop of Status over the entries: one MigrationStatus appended per entry.
RECURSIVE StatusLoop(_, _, _)
StatusLoop(es, a, acc) ==
    IF es = <<>>
    THEN acc
    ELSE LET id == Head(es)
             s == IF id \in DOMAIN a
                  THEN [id |-> id, batch |-> a[id], applied |-> TRUE]
                  ELSE [id |-> id, batch |-> 0, applied |-> FALSE]
         IN  StatusLoop(Tail(es), a, Append(acc, s))

StatusEnsure(p) ==
    /\ pc[p] = "s_ensure"
    /\ UNCHANGED pureVars
    /\ \E ok \in BOOLEAN :
        /\ ensureMigrationsTable(p, ok)
        /\ IF ok
           THEN Goto(p, "s_load") /\ UNCHANGED result
           ELSE Goto(p, "exit") /\ result' = [result EXCEPT ![p] = "err_ensure"]
    /\ Noise(p)
    /\ UNCHANGED <<dbBefore, torn>>
    /\ UNCHANGED <<driver, rows, db, lockHolder, op, entries, applied, batch, i, k,
                   tx, txBuf, log, status, calls>>

\* applied() and the report built from it; no lock is taken.
StatusLoad(p) ==
    /\ pc[p] = "s_load"
    /\ UNCHANGED pureVars
    /\ \/ /\ tableExists
          /\ \E a \in AppliedMaps :
              /\ applied' = [applied EXCEPT ![p] = a]
              /\ status' = [status EXCEPT ![p] = StatusLoop(entries[p], a, <<>>)]
          /\ result' = [result EXCEPT ![p] = "ok"]
       \/ /\ result' = [result EXCEPT ![p] = "err_load"]
          /\ UNCHANGED <<applied, status>>
    /\ Goto(p, "exit")
    /\ Noise(p)
    /\ UNCHANGED <<dbBefore, torn>>
    /\ UNCHANGED <<driver, tableExists, rows, db, lockHolder, op, entries, batch, i, k,
                   tx, txBuf, log, calls>>

-----------------------------------------------------------------------------
(* The specification *)

Step(p) ==
    \/ Call(p)
    \/ Exit(p)
    \/ MigrateEnsure(p)
    \/ MigrateLock(p)
    \/ MigrateLoad(p)
    \/ MigrateLoop(p)
    \/ MigrateExec(p)
    \/ MigrateRollbackTx(p)
    \/ MigrateCommit(p)
    \/ MigrateInsert(p)
    \/ MigrateReturn(p)
    \/ RollbackEnsure(p)
    \/ RollbackLock(p)
    \/ RollbackLoad(p)
    \/ RollbackLoop(p)
    \/ RollbackExec(p)
    \/ RollbackRollbackTx(p)
    \/ RollbackCommit(p)
    \/ RollbackDelete(p)
    \/ RollbackReturn(p)
    \/ FreshEnsure(p)
    \/ FreshLock(p)
    \/ FreshLoop(p)
    \/ FreshExec(p)
    \/ FreshDrop(p)
    \/ FreshRelease(p)
    \/ FreshReturn(p)
    \/ StatusEnsure(p)
    \/ StatusLoad(p)

Next ==
    \E p \in Procs : Step(p)

\* Runner processes of a Postgres database.
InitPostgres ==
    Init /\ IsPostgres(driver)

Spec ==
    InitPostgres /\ [][Next]_vars

\* Runner processes of a MySQL or SQLite database.
InitPartial ==
    Init /\ ~IsPostgres(driver)

SpecPartial ==
    InitPartial /\ [][Next]_vars

-----------------------------------------------------------------------------
(* The generators on their own: one call of one method of the runner's generator *)

GenCalls ==
    [method : GeneratorMethods, table : Names, a : Names, b : Names]

\* The call of method m returns or panics.
GeneratorCall(m) ==
    /\ genCall.method = m
    /\ ~genOut.done
    /\ genOut' = [done |-> TRUE,
                  out |-> Generate(GeneratorOf(driver), m, genCall.table, genCall.a, genCall.b)]
    /\ UNCHANGED <<genCall, runnerVars, recorderVars, inspectorVars, middlewareVars, quoteVars>>

CallCreateTable ==
    GeneratorCall("CreateTable")

CallDropTableIfExists ==
    GeneratorCall("DropTableIfExists")

CallAddColumn ==
    GeneratorCall("AddColumn")

CallDropColumn ==
    GeneratorCall("DropColumn")

CallRenameColumn ==
    GeneratorCall("RenameColumn")

CallAddIndex ==
    GeneratorCall("AddIndex")

CallRenameTable ==
    GeneratorCall("RenameTable")

\* A runner of a MySQL or SQLite database about to call its generator.
InitGenerator ==
    /\ RunnerInit
    /\ ~IsPostgres(driver)
    /\ genCall \in GenCalls
    /\ genOut = [done |-> FALSE]
    /\ RecorderIdle
    /\ InspectorIdle
    /\ MiddlewareIdle
    /\ QuoteIdle

NextGenerator ==
    \/ CallCreateTable
    \/ CallDropTableIfExists
    \/ CallAddColumn
    \/ CallDropColumn
    \/ CallRenameColumn
    \/ CallAddIndex
    \/ CallRenameTable

SpecGenerator ==
    InitGenerator /\ [][NextGenerator]_vars

-----------------------------------------------------------------------------
(* The recorder on its own: one migration instance and the calls of its methods *)

RecorderMethods ==
    {"CreateTable", "DropTableIfExists", "RenameTable", "AddColumn", "DropColumn",
     "RenameColumn", "AddIndex", "AddUniqueIndex"}

\* The Operation a recorder method builds: its Type, its Table and, for the two index
\* methods, its Index with the Unique flag (no Index otherwise).
Operation(method, table) ==
    [type |-> method,
     table |-> table,
     index |-> IF method = "AddIndex" THEN <<[table |-> table, unique |-> FALSE]>>
               ELSE IF method = "AddUniqueIndex" THEN <<[table |-> table, unique |-> TRUE]>>
               ELSE <<>>]

\* An Operation put in front of the log.
Record_InFront(ops, o) ==
    <<o>> \o ops

\* m.Operations = append(m.Operations, Operation{...})
Record(ops, o) ==
    Append(ops, o)

\* A recorder method is called on the instance.
RecorderCall(method) ==
    /\ Len(recorded) < MaxOps
    /\ \E t \in Names :
        /\ Operations' = Record(Operations, Operation(method, t))
        /\ recorded' = Append(recorded, [method |-> method, table |-> t])
    /\ UNCHANGED <<runnerVars, generatorVars, inspectorVars, middlewareVars, quoteVars>>

RecordCreateTable ==
    RecorderCall("CreateTable")

RecordDropTableIfExists ==
    RecorderCall("DropTableIfExists")

RecordRenameTable ==
    RecorderCall("RenameTable")

RecordAddColumn ==
    RecorderCall("AddColumn")

RecordDropColumn ==
    RecorderCall("DropColumn")

RecordRenameColumn ==
    RecorderCall("RenameColumn")

RecordAddIndex ==
    RecorderCall("AddIndex")

RecordAddUniqueIndex ==
    RecorderCall("AddUniqueIndex")

\* Migration.Reset on the instance.
RecorderReset ==
    /\ Operations' = Reset(Operations)
    /\ recorded' = <<>>
    /\ UNCHANGED <<runnerVars, generatorVars, inspectorVars, middlewareVars, quoteVars>>

\* An idle runner, for the components checked on their own.
RunnerIdle ==
    RunnerInit /\ driver = "postgres"

\* A new migration instance: &Migration{}.
InitRecorder ==
    /\ RunnerIdle
    /\ GeneratorIdle
    /\ RecorderIdle
    /\ InspectorIdle
    /\ MiddlewareIdle
    /\ QuoteIdle

NextRecorder ==
    \/ RecordCreateTable
    \/ RecordDropTableIfExists
    \/ RecordRenameTable
    \/ RecordAddColumn
    \/ RecordDropColumn
    \/ RecordRenameColumn
    \/ RecordAddIndex
    \/ RecordAddUniqueIndex
    \/ RecorderReset

SpecRecorder ==
    InitRecorder /\ [][NextRecorder]_vars

-----------------------------------------------------------------------------
(* The inspector on its own: the scan of the migrations directory and the replay *)

\* The descriptions of struct names, as bytes: "A", "Ab" and "C".
Descriptions ==
    {<<65>>, <<65, 98>>, <<67>>}

\* The timestamp of the j-th file written, as bytes: a digit.
Timestamp(j) ==
    <<48 + j>>

\* The struct of a migration file: {PascalDescription}_{timestamp}.
StructName(f) ==
    f.desc \o <<95>> \o Timestamp(f.ts)

\* The migrations directories: os.ReadDir gives the files sorted by filename, and the
\* filename starts with the timestamp.
Dirs ==
    UNION {{[j \in 1..n |-> [ts |-> j, desc |-> d[j]]] : d \in [1..n -> Descriptions]} :
              n \in 0..MaxFiles}

\* The order of Go strings: byte by byte, a proper prefix first.
RECURSIVE LexLess(_, _)
LexLess(a, b) ==
    IF a = <<>> THEN b # <<>>
    ELSE IF b = <<>> THEN FALSE
    ELSE IF Head(a) # Head(b) THEN Head(a) < Head(b)
    ELSE LexLess(Tail(a), Tail(b))

\* sort.Strings
SortStrings(sq) ==
    CHOOSE r \in [1..Len(sq) -> Range(sq)] :
        /\ Range(r) = Range(sq)
        /\ \A a, b \in 1..Len(sq) : a < b => LexLess(r[a], r[b])

\* ScanMigrationStructs, one file: the name of the struct that embeds Migration is
\* appended.
ScanFile ==
    /\ insPc = "scan"
    /\ scanned < Len(files)
    /\ structs' = Append(structs, StructName(files[scanned + 1]))
    /\ scanned' = scanned + 1
    /\ UNCHANGED <<files, replayed, insPc, tmpDir, insErr>>
    /\ UNCHANGED <<runnerVars, generatorVars, recorderVars, middlewareVars, quoteVars>>

\* os.ReadDir or the parse of a file fails: RunSchemaInspector returns the error.
ScanFail ==
    /\ insPc = "scan"
    /\ insPc' = "done"
    /\ insErr' = "scanning migrations"
    /\ UNCHANGED <<files, structs, scanned, replayed, tmpDir>>
    /\ UNCHANGED <<runnerVars, generatorVars, recorderVars, middlewareVars, quoteVars>>

\* ScanMigrationStructs after the last file: sort.Strings(structs); RunSchemaInspector
\* returns at once when there is no struct, and builds the entries in that order
\* otherwise.
ScanSort ==
    /\ insPc = "scan"
    /\ scanned = Len(files)
    /\ structs' = SortStrings(structs)
    /\ insPc' = IF Len(structs) = 0 THEN "done" ELSE "generate"
    /\ insErr' = IF Len(structs) = 0 THEN "nil" ELSE insErr
    /\ UNCHANGED <<files, scanned, replayed, tmpDir>>
    /\ UNCHANGED <<runnerVars, generatorVars, recorderVars, middlewareVars, quoteVars>>

\* GenerateSchemaInspector(entries) gives the source of the program, or an error.
GenerateInspector ==
    /\ insPc = "generate"
    /\ \E ok \in BOOLEAN :
        /\ insPc' = IF ok THEN "mkdir" ELSE "done"
        /\ insErr' = IF ok THEN insErr ELSE "generating inspector"
    /\ UNCHANGED <<files, structs, scanned, replayed, tmpDir>>
    /\ UNCHANGED <<runnerVars, generatorVars, recorderVars, middlewareVars, quoteVars>>

\* os.MkdirAll(tmpDir, 0o755), its error dropped; from here on os.RemoveAll(tmpDir) is
\* deferred.
MkdirAll ==
    /\ insPc = "mkdir"
    /\ \E ok \in BOOLEAN : tmpDir' = (tmpDir \/ ok)
    /\ insPc' = "write"
    /\ UNCHANGED <<files, structs, scanned, replayed, insErr>>
    /\ UNCHANGED <<runnerVars, generatorVars, recorderVars, middlewareVars, quoteVars>>

\* os.WriteFile of main.go in the directory: it fails when the directory is not there,
\* and may fail when it is.
WriteFile ==
    /\ insPc = "write"
    /\ \E ok \in BOOLEAN :
        /\ ok => tmpDir
        /\ insPc' = IF ok THEN "replay" ELSE "ret"
        /\ insErr' = IF ok THEN insErr ELSE "writing inspector"
    /\ UNCHANGED <<files, structs, scanned, replayed, tmpDir>>
    /\ UNCHANGED <<runnerVars, generatorVars, recorderVars, middlewareVars, quoteVars>>

\* The inspector program, run by "go run": Reset and Up of the next entry, its
\* operations folded into the snapshot.
ReplayUp ==
    /\ insPc = "replay"
    /\ replayed' = Append(replayed, structs[Len(replayed) + 1])
    /\ insPc' = IF Len(replayed) + 1 = Len(structs) THEN "decode" ELSE "replay"
    /\ UNCHANGED <<files, structs, scanned, tmpDir, insErr>>
    /\ UNCHANGED <<runnerVars, generatorVars, recorderVars, middlewareVars, quoteVars>>

\* cmd.CombinedOutput returns an error: the program does not compile, or exits with a
\* failure.
RunFail ==
    /\ insPc = "replay"
    /\ insPc' = "ret"
    /\ insErr' = "running inspector"
    /\ UNCHANGED <<files, structs, scanned, replayed, tmpDir>>
    /\ UNCHANGED <<runnerVars, generatorVars, recorderVars, middlewareVars, quoteVars>>

\* json.Unmarshal of the output of the program; the tables and views are built from
\* the payload when it decodes.
Decode ==
    /\ insPc = "decode"
    /\ \E ok \in BOOLEAN :
        insErr' = IF ok THEN "nil" ELSE "parsing inspector output"
    /\ insPc' = "ret"
    /\ UNCHANGED <<files, structs, scanned, replayed, tmpDir>>
    /\ UNCHANGED <<runnerVars, generatorVars, recorderVars, middlewareVars, quoteVars>>

\* A removal at the end of the function instead of a deferred one: the early returns
\* pass it by.
RemoveAll_AtEnd(exists, err) ==
    IF err = "nil" THEN FALSE ELSE exists

\* os.RemoveAll(tmpDir): the directory and what it holds are gone.
RemoveAll(exists, err) ==
    FALSE

\* RunSchemaInspector returns after MkdirAll: the deferred os.RemoveAll runs.
InspectorReturn ==
    /\ insPc = "ret"
    /\ tmpDir' = RemoveAll(tmpDir, insErr)
    /\ insPc' = "done"
    /\ UNCHANGED <<files, structs, scanned, replayed, insErr>>
    /\ UNCHANGED <<runnerVars, generatorVars, recorderVars, middlewareVars, quoteVars>>

\* RunSchemaInspector is called on a project; a directory .pickle-tmp may be there, left
\* by a run that was killed.
InitInspector ==
    /\ RunnerIdle
    /\ GeneratorIdle
    /\ RecorderIdle
    /\ files \in Dirs
    /\ structs = <<>>
    /\ scanned = 0
    /\ replayed = <<>>
    /\ insPc = "scan"
    /\ tmpDir \in BOOLEAN
    /\ insErr = "none"
    /\ MiddlewareIdle
    /\ QuoteIdle

NextInspector ==
    \/ ScanFile
    \/ ScanFail
    \/ ScanSort
    \/ GenerateInspector
    \/ MkdirAll
    \/ WriteFile
    \/ ReplayUp
    \/ RunFail
    \/ Decode
    \/ InspectorReturn

SpecInspector ==
    InitInspector /\ [][NextInspector]_vars

-----------------------------------------------------------------------------
(* A request to a route: AllRoutes resolves its middleware, RunMiddleware runs them *)

\* The middleware lists of the groups on the way to the route, outermost first, and of
\* the route itself.
GroupPaths ==
    {<<>>} \cup {<<g>> : g \in {<<>>, <<"g1">>, <<"g1", "g2">>}}
           \cup {<<g, h>> : g \in {<<>>, <<"g1">>, <<"g1", "g2">>}, h \in {<<>>, <<"h1">>}}

RouteMiddleware ==
    {<<>>, <<"mw1">>, <<"mw1", "mw2">>}

\* A request: the route it goes to, and the middleware that returns without calling
\* next(), if any does.
Requests ==
    {r \in [groups : GroupPaths, route : RouteMiddleware,
            stop : {"none", "g1", "g2", "h1", "mw1", "mw2"}] :
        r.stop = "none"
            \/ r.stop \in Range(r.route)
            \/ \E j \in 1..Len(r.groups) : r.stop \in Range(r.groups[j])}

\* Router.collectRoutes down to one route: each router on the way puts its middleware
\* after that of its parents, and the route's middleware come last.
RECURSIVE collectRoutes(_, _, _)
collectRoutes(parentMW, routers, routeMW) ==
    LET combinedMW == parentMW \o Head(routers)
    IN  IF Len(routers) = 1
        THEN combinedMW \o routeMW
        ELSE collectRoutes(combinedMW, Tail(routers), routeMW)

\* A chain built from the outside in: the middleware goes next to the handler.
Wrap_Outside(mw, inner) ==
    SubSeq(inner, 1, Len(inner) - 1) \o <<mw, "handler">>

\* next = func() Response { return mw(ctx, inner) }: a closure over a middleware and
\* the closure it wraps, as the list of what it calls, the middleware and then what
\* inner calls. The handler alone is <<"handler">>.
Wrap(mw, inner) ==
    <<mw>> \o inner

\* AllRoutes: the root router, made by Routes, has no middleware of its own.
AllRoutes ==
    /\ mwPc = "collect"
    /\ middleware' = collectRoutes(<<>>, <<<<>>>> \o router.groups, router.route)
    /\ mwPc' = "run"
    /\ UNCHANGED <<router, next, mwI, order, stack>>
    /\ UNCHANGED <<runnerVars, generatorVars, recorderVars, inspectorVars, quoteVars>>

\* RunMiddleware is called by the handler of the route: next := handler, and the loop
\* starts at the last middleware.
RunMiddleware ==
    /\ mwPc = "run"
    /\ next' = <<"handler">>
    /\ mwI' = Len(middleware)
    /\ mwPc' = "build"
    /\ UNCHANGED <<router, middleware, order, stack>>
    /\ UNCHANGED <<runnerVars, generatorVars, recorderVars, inspectorVars, quoteVars>>

\* One turn of the loop that builds the chain from the inside out.
BuildChain ==
    /\ mwPc = "build"
    /\ mwI >= 1
    /\ next' = Wrap(middleware[mwI], next)
    /\ mwI' = mwI - 1
    /\ UNCHANGED <<router, middleware, order, stack, mwPc>>
    /\ UNCHANGED <<runnerVars, generatorVars, recorderVars, inspectorVars, quoteVars>>

\* return next(), or return handler() when there is no middleware.
CallChain ==
    /\ mwPc = "build"
    /\ mwI = 0
    /\ mwPc' = "call"
    /\ UNCHANGED <<router, middleware, next, mwI, order, stack>>
    /\ UNCHANGED <<runnerVars, generatorVars, recorderVars, inspectorVars, quoteVars>>

\* The closure called is a middleware: its code before next() runs, then it calls
\* next(), its inner closure, or returns without calling it.
MiddlewareBefore ==
    /\ mwPc = "call"
    /\ Head(next) # "handler"
    /\ order' = Append(order, [mw |-> Head(next), at |-> "before"])
    /\ IF Head(next) = router.stop
       THEN /\ mwPc' = "return"
            /\ UNCHANGED <<next, stack>>
       ELSE /\ stack' = <<Head(next)>> \o stack
            /\ next' = Tail(next)
            /\ UNCHANGED mwPc
    /\ UNCHANGED <<router, middleware, mwI>>
    /\ UNCHANGED <<runnerVars, generatorVars, recorderVars, inspectorVars, quoteVars>>

\* The closure called is the handler: the controller runs and returns its Response.
Handler ==
    /\ mwPc = "call"
    /\ Head(next) = "handler"
    /\ order' = Append(order, [mw |-> "handler", at |-> "run"])
    /\ mwPc' = "return"
    /\ UNCHANGED <<router, middleware, next, mwI, stack>>
    /\ UNCHANGED <<runnerVars, generatorVars, recorderVars, inspectorVars, quoteVars>>

\* next() returns to the middleware that called it last: its code after next() runs.
MiddlewareAfter ==
    /\ mwPc = "return"
    /\ stack # <<>>
    /\ order' = Append(order, [mw |-> Head(stack), at |-> "after"])
    /\ stack' = Tail(stack)
    /\ UNCHANGED <<router, middleware, next, mwI, mwPc>>
    /\ UNCHANGED <<runnerVars, generatorVars, recorderVars, inspectorVars, quoteVars>>

\* RunMiddleware returns the Response, and it is written.
Respond ==
    /\ mwPc = "return"
    /\ stack = <<>>
    /\ mwPc' = "done"
    /\ UNCHANGED <<router, middleware, next, mwI, order, stack>>
    /\ UNCHANGED <<runnerVars, generatorVars, recorderVars, inspectorVars, quoteVars>>

\* A request comes in for a route of the router.
InitMiddleware ==
    /\ RunnerIdle
    /\ GeneratorIdle
    /\ RecorderIdle
    /\ InspectorIdle
    /\ QuoteIdle
    /\ router \in Requests
    /\ middleware = <<>>
    /\ next = <<>>
    /\ mwI = 0
    /\ order = <<>>
    /\ stack = <<>>
    /\ mwPc = "collect"

NextMiddleware ==
    \/ AllRoutes
    \/ RunMiddleware
    \/ BuildChain
    \/ CallChain
    \/ MiddlewareBefore
    \/ Handler
    \/ MiddlewareAfter
    \/ Respond

SpecMiddleware ==
    InitMiddleware /\ [][NextMiddleware]_vars

-----------------------------------------------------------------------------
(* Quoted identifiers: qi of the Postgres generator, and the quoted form read back *)

\* The byte of the double quote.
DoubleQuote == 34

\* The bytes of identifiers: the double quote, a space and a letter.
IdentBytes ==
    {DoubleQuote, 32, 97}

Idents ==
    UNION {[1..n -> IdentBytes] : n \in 0..MaxIdent}

\* strings.ReplaceAll(s, old, new) for an old of one byte.
RECURSIVE ReplaceAll(_, _, _)
ReplaceAll(s, old, new) ==
    IF s = <<>> THEN <<>>
    ELSE (IF Head(s) = old THEN new ELSE <<Head(s)>>) \o ReplaceAll(Tail(s), old, new)

\* The name between double quotes as it is.
qi_NoDoubling(n) ==
    <<DoubleQuote>> \o n \o <<DoubleQuote>>

\* qi: `"` + strings.ReplaceAll(name, `"`, `""`) + `"`
qi(n) ==
    <<DoubleQuote>> \o ReplaceAll(n, DoubleQuote, <<DoubleQuote, DoubleQuote>>)
                    \o <<DoubleQuote>>

\* What follows the opening quote is read up to the closing quote, the first double
\* quote that is not followed by another; two double quotes give one.
RECURSIVE ReadQuoted(_)
ReadQuoted(s) ==
    IF s = <<>> THEN <<>>
    ELSE IF Head(s) # DoubleQuote THEN <<Head(s)>> \o ReadQuoted(Tail(s))
    ELSE IF Len(s) >= 2 /\ s[2] = DoubleQuote
         THEN <<DoubleQuote>> \o ReadQuoted(Tail(Tail(s)))
         ELSE <<>>

\* The identifier a quoted form stands for.
Unquote(q) ==
    IF q = <<>> \/ Head(q) # DoubleQuote THEN q ELSE ReadQuoted(Tail(q))

\* The generator quotes the identifier for a statement.
Quote ==
    /\ qiPc = "quote"
    /\ quoted' = qi(ident)
    /\ qiPc' = "read"
    /\ UNCHANGED <<ident, unquoted>>
    /\ UNCHANGED <<runnerVars, generatorVars, recorderVars, inspectorVars, middlewareVars>>

\* The quoted form is read back.
ReadBack ==
    /\ qiPc = "read"
    /\ unquoted' = Unquote(quoted)
    /\ qiPc' = "done"
    /\ UNCHANGED <<ident, quoted>>
    /\ UNCHANGED <<runnerVars, generatorVars, recorderVars, inspectorVars, middlewareVars>>

InitQuote ==
    /\ RunnerIdle
    /\ GeneratorIdle
    /\ RecorderIdle
    /\ InspectorIdle
    /\ MiddlewareIdle
    /\ ident \in Idents
    /\ quoted = <<>>
    /\ unquoted = <<>>
    /\ qiPc = "quote"

NextQuote ==
    \/ Quote
    \/ ReadBack

SpecQuote ==
    InitQuote /\ [][NextQuote]_vars

-----------------------------------------------------------------------------
(* Vocabulary of the properties *)

\* The effects of the whole Up log of a migration.
Tokens(id) ==
    {<<id, n>> : n \in 1..NumStmts(id)}

EntryIds(p) ==
    Range(entries[p])

Reverse(sq) ==
    [j \in 1..Len(sq) |-> sq[Len(sq) + 1 - j]]

\* Between a successful acquireLock and the releaseLock that matches it.
Locked ==
    {"m_load", "m_loop", "m_exec", "m_rollback", "m_commit", "m_insert", "m_ret",
     "r_load", "r_loop", "r_exec", "r_rollback", "r_commit", "r_delete", "r_ret",
     "f_loop", "f_exec", "f_drop", "f_release"}

InCritical(p) ==
    pc[p] \in Locked

\* Process p runs Migrate right after its own successful Migrate of the same registry,
\* and no process has acted in between.
Follows(p) ==
    /\ op[p] = "Migrate"
    /\ lastMigrated[p] # <<>>
    /\ entries[p] = lastMigrated[p]

-----------------------------------------------------------------------------
(* Rollback called again and again over one registry, every database call succeeding *)

\* The registry of the project: it holds every migration that was applied.
FullRegistry ==
    <<"A", "B">>

\* What the Migrate calls of the project have left: nothing, A alone, A and B in one
\* batch, A and B in two batches.
Migrated ==
    {[rows |-> EmptyBag, db |-> {}],
     [rows |-> SetToBag({<<"A", 1>>}), db |-> Tokens("A")],
     [rows |-> SetToBag({<<"A", 1>>, <<"B", 1>>}), db |-> Tokens("A") \cup Tokens("B")],
     [rows |-> SetToBag({<<"A", 1>>, <<"B", 2>>}), db |-> Tokens("A") \cup Tokens("B")]}

\* No database call of the step of p fails.
Succeeds(p) ==
    result'[p] \in {"none", "ok"}

RepeatCall(p) ==
    /\ Call(p)
    /\ op'[p] = "Rollback"
    /\ entries'[p] = FullRegistry

RepeatEnsure(p) ==
    RollbackEnsure(p) /\ Succeeds(p)

RepeatLock(p) ==
    RollbackLock(p) /\ Succeeds(p)

RepeatLoad(p) ==
    RollbackLoad(p) /\ Succeeds(p)

RepeatLoop(p) ==
    RollbackLoop(p) /\ Succeeds(p)

RepeatExec(p) ==
    RollbackExec(p) /\ Succeeds(p)

RepeatCommit(p) ==
    RollbackCommit(p) /\ Succeeds(p)

RepeatDelete(p) ==
    RollbackDelete(p) /\ Succeeds(p)

InitRepeat ==
    /\ driver = "postgres"
    /\ \E m \in Migrated :
        /\ rows = m.rows
        /\ db = m.db
        /\ tableExists = (m.rows # EmptyBag)
    /\ lockHolder = 0
    /\ ProcessesIdle
    /\ GeneratorIdle
    /\ RecorderIdle
    /\ InspectorIdle
    /\ MiddlewareIdle
    /\ QuoteIdle

NextRepeat ==
    \E p \in Procs :
        \/ RepeatCall(p)
        \/ RepeatEnsure(p)
        \/ RepeatLock(p)
        \/ RepeatLoad(p)
        \/ RepeatLoop(p)
        \/ RepeatExec(p)
        \/ RepeatCommit(p)
        \/ RepeatDelete(p)
        \/ RollbackReturn(p)
        \/ Exit(p)

\* Each call runs on: a step that can be taken is taken, and the lock is granted to a
\* waiting session once it is free.
SpecRepeat ==
    InitRepeat /\ [][NextRepeat]_vars /\ WF_vars(NextRepeat)

-----------------------------------------------------------------------------
(* C1 *)

\* C1: a Migrate that immediately follows a successful Migrate of the same entries, with
\* no other runner activity in between, never enters runMigration and never writes a
\* bookkeeping row: each of its steps leaves the rows and the database as they were.
C1_SecondMigrateAppliesNothing ==
    [][\A p \in Procs :
          (Follows(p) /\ Follows(p)') =>
              /\ rows' = rows
              /\ db' = db
              /\ pc'[p] \notin {"m_exec", "m_rollback", "m_commit", "m_insert"}
              /\ result'[p] \notin {"err_migrating", "err_recording"}]_vars

\* The second Migrate has run to its end with rows in the table.
C1_Witness ==
    \E p \in Procs :
        /\ Follows(p)
        /\ pc[p] = "m_ret"
        /\ result[p] = "ok"
        /\ rows # EmptyBag

-----------------------------------------------------------------------------
(* C2 *)

\* The rows a successful Rollback must leave, given the map it loaded: the rows of the
\* entries recorded in the greatest batch are gone, every other row is as it was.
RowsAfterRollback(p) ==
    LET a == applied[p]
        mx == Max(Range(a) \cup {0})
        reverted == {id \in DOMAIN a : id \in EntryIds(p) /\ a[id] = mx}
    IN  SetToBag({<<id, a[id]>> : id \in DOMAIN a \ reverted})

\* C2 (amended): Rollback reverts exactly those of the supplied entries whose recorded
\* batch is the greatest recorded batch. After a successful Rollback they have no row;
\* every other row is still there with its batch, and Down was never run for a migration
\* of a smaller batch.
C2_RollbackLastBatchOfEntries ==
    \A p \in Procs :
        LET a == applied[p]
            mx == Max(Range(a) \cup {0})
        IN  /\ (pc[p] = "r_ret" /\ result[p] = "ok") =>
                  /\ rows = RowsAfterRollback(p)
                  /\ \A id \in DOMAIN a : a[id] < mx => log[p][id] = <<>>
            /\ pc[p] \in {"r_exec", "r_rollback", "r_commit", "r_delete"} =>
                  /\ entries[p][i[p]] \in DOMAIN a
                  /\ a[entries[p][i[p]]] = mx

\* Batch 2 is reverted and a row of batch 1 stays.
C2_Witness ==
    \E p \in Procs :
        /\ pc[p] = "r_ret"
        /\ result[p] = "ok"
        /\ batch[p] = 2
        /\ \E id \in DOMAIN applied[p] : applied[p][id] = 2 /\ id \notin RowIds
        /\ \E id \in DOMAIN applied[p] : applied[p][id] = 1 /\ id \in RowIds

\* C2 as claimed: after a successful Rollback no migration recorded in the greatest
\* batch has a row, whether or not it is among the entries.
C2_RollbackLastBatch ==
    \A p \in Procs :
        (pc[p] = "r_ret" /\ result[p] = "ok") =>
            \A id \in DOMAIN applied[p] :
                LET mx == Max(Range(applied[p]) \cup {0})
                IN  /\ applied[p][id] = mx => id \notin RowIds
                    /\ applied[p][id] < mx => <<id, applied[p][id]>> \in BagToSet(rows)

-----------------------------------------------------------------------------
(* C3 *)

\* C3: when Migrate returns because a transactional migration failed, at Begin, at a
\* statement or at Commit, the database is what it was when that migration started.
C3_TransactionalLeavesNoTrace ==
    \A p \in Procs :
        (/\ pc[p] = "m_ret"
         /\ result[p] = "err_migrating"
         /\ Transactional(entries[p][i[p]])) => db = dbBefore[p]

\* The second statement of a transactional migration failed after the first succeeded,
\* and none of the migration's effects is in the database.
C3_Witness ==
    \E p \in Procs :
        /\ pc[p] = "m_ret"
        /\ result[p] = "err_migrating"
        /\ Transactional(entries[p][i[p]])
        /\ k[p] = 2
        /\ Tokens(entries[p][i[p]]) \cap db = {}

-----------------------------------------------------------------------------
(* C4 *)

\* C4: when a migration fails, Migrate returns with every entry it applied before in this
\* call recorded once in the new batch with its effects in the database, and with no
\* later entry touched: Up was not called on it and it got no row.
C4_FailureKeepsEarlier ==
    \A p \in Procs :
        (pc[p] = "m_ret" /\ result[p] = "err_migrating") =>
            \A j \in 1..Len(entries[p]) :
                LET id == entries[p][j] IN
                /\ (j < i[p] /\ id \notin DOMAIN applied[p]) =>
                      /\ CopiesIn(<<id, batch[p]>>, rows) = 1
                      /\ Tokens(id) \subseteq db
                /\ j > i[p] =>
                      /\ log[p][id] = <<>>
                      /\ id \notin DOMAIN applied[p] => id \notin RowIds

\* The second entry failed after the first was applied in the same call.
C4_Witness ==
    \E p \in Procs :
        /\ pc[p] = "m_ret"
        /\ result[p] = "err_migrating"
        /\ i[p] = 2
        /\ entries[p][1] \notin DOMAIN applied[p]
        /\ entries[p][1] \in RowIds

-----------------------------------------------------------------------------
(* C5 *)

\* C5: with the Postgres driver no two processes are between acquireLock and the
\* matching releaseLock at the same time.
C5_MutualExclusion ==
    IsPostgres(driver) =>
        \A p, q \in Procs : (p # q /\ InCritical(p)) => ~InCritical(q)

\* One process executes the statements of a migration while the other waits for the lock.
C5_Witness ==
    \E p, q \in Procs :
        /\ p # q
        /\ op[p] \in {"Migrate", "Rollback"}
        /\ op[q] \in {"Migrate", "Rollback"}
        /\ pc[p] \in {"m_exec", "r_exec"}
        /\ pc[q] \in {"m_lock", "r_lock"}

-----------------------------------------------------------------------------
(* C6 *)

\* C6: a call that has returned does not hold the advisory lock.
C6_LockReleasedOnReturn ==
    \A p \in Procs : pc[p] \in {"exit", "idle"} => lockHolder # p

\* A call that took the lock has returned after a failing bookkeeping write.
C6_Witness ==
    \E p \in Procs :
        /\ pc[p] = "exit"
        /\ result[p] \in {"err_recording", "err_removing"}
        /\ lockHolder # p

-----------------------------------------------------------------------------
(* C7 *)

\* From the acquireLock of a call to the return of that call.
InCall(p) ==
    \/ InCritical(p)
    \/ op[p] = "Fresh" /\ pc[p] \in {"m_ensure", "m_lock", "f_ret"}

\* C7: with the Postgres driver a process holds the advisory lock from its acquireLock
\* to the return of the call, so that nobody else takes the lock inside a Fresh.
C7_LockHeldThroughout ==
    IsPostgres(driver) => \A p \in Procs : InCall(p) => lockHolder = p

-----------------------------------------------------------------------------
(* C8 *)

\* C8: when the Migrate of Fresh returns nil, every entry has exactly one row, and that
\* row is of batch 1.
C8_FreshOneBatch ==
    \A p \in Procs :
        (op[p] = "Fresh" /\ pc[p] = "m_ret" /\ result[p] = "ok") =>
            \A id \in EntryIds(p) :
                /\ CopiesIn(<<id, 1>>, rows) = 1
                /\ \A r \in BagToSet(rows) : r[1] = id => r[2] = 1

-----------------------------------------------------------------------------
(* C9 *)

\* C9: a step of Fresh's teardown leads to the next statement or to the loop, never out
\* of Fresh; each entry ends with i one less, the loop is left for the drop only when
\* every entry was gone through, last first, and the drop is followed by Migrate.
C9_TeardownNeverAborts ==
    [][\A p \in Procs :
          /\ pc[p] = "f_exec" =>
                /\ pc'[p] \in {"f_exec", "f_loop"}
                /\ pc'[p] = "f_loop" => i'[p] = i[p] - 1
          /\ pc[p] = "f_loop" => pc'[p] \in {"f_loop", "f_exec", "f_drop"}
          /\ (pc[p] = "f_loop" /\ pc'[p] = "f_drop") =>
                [j \in 1..Len(torn[p]) |-> torn[p][j].id] = Reverse(entries[p])
          /\ pc[p] = "f_drop" => pc'[p] \in {"f_drop", "f_release"}
          /\ pc[p] = "f_release" => pc'[p] \in {"f_release", "m_ensure"}]_vars

\* The Down of the last entry failed, and the teardown went on to the first entry and
\* to the drop.
C9_Witness ==
    \E p \in Procs :
        /\ pc[p] = "f_release"
        /\ Len(torn[p]) = 2
        /\ ~torn[p][1].ok
        /\ torn[p][2].id = entries[p][1]

-----------------------------------------------------------------------------
(* C10 *)

\* What Status must report for the rows it read.
ReportMatches(st, es, rs) ==
    /\ Len(st) = Len(es)
    /\ \A j \in 1..Len(es) :
          LET has == \E r \in BagToSet(rs) : r[1] = es[j] IN
          /\ st[j].id = es[j]
          /\ st[j].applied = has
          /\ has => <<es[j], st[j].batch>> \in BagToSet(rs)
          /\ ~has => st[j].batch = 0

\* C10: Status returns one record per entry, in the order of the entries, applied with
\* the batch of a row of that id exactly when there is one; its steps leave the rows,
\* the database, the lock and the migration instances as they were.
C10_StatusReadOnly ==
    [][\A p \in Procs :
          (op[p] = "Status" /\ pc'[p] # pc[p]) =>
              /\ rows' = rows
              /\ db' = db
              /\ lockHolder' = lockHolder
              /\ log'[p] = log[p]
              /\ (pc[p] = "s_load" /\ result'[p] = "ok") =>
                    ReportMatches(status'[p], entries[p], rows)]_vars

\* Status has reported an applied and a pending migration.
C10_Witness ==
    \E p \in Procs :
        /\ op[p] = "Status"
        /\ pc[p] = "exit"
        /\ result[p] = "ok"
        /\ Len(status[p]) = 2
        /\ status[p][1].applied
        /\ status[p][1].batch = 1
        /\ ~status[p][2].applied
-----------------------------------------------------------------------------
(* C11 *)

\* C11: whenever a process executes a statement of a migration whose Transactional() is
\* true, in Migrate, in Rollback and in the teardown of Fresh, it does so inside an open
\* transaction.
C11_TransactionalInOneTx ==
    \A p \in Procs :
        (pc[p] \in {"m_exec", "r_exec", "f_exec"} /\ Transactional(entries[p][i[p]])) => tx[p]

-----------------------------------------------------------------------------
(* C12 *)

\* The positions between DB.Begin and the Commit or Rollback of a migration.
InTx ==
    {"m_exec", "m_rollback", "m_commit", "r_exec", "r_rollback", "r_commit"}

\* C12: a process has a transaction open only between the Begin and the Commit or
\* Rollback of the migration it is running; the transaction holds statements of that
\* migration only, and it is closed and empty at the bookkeeping write, at the head of
\* the loop and at the return.
C12_TxWithinOneMigration ==
    \A p \in Procs :
        /\ tx[p] => pc[p] \in InTx
        /\ ~tx[p] => txBuf[p] = <<>>
        /\ \A j \in 1..Len(txBuf[p]) : txBuf[p][j].id = entries[p][i[p]]

\* The transaction of the first entry was committed and is closed while the statements
\* of the second entry run.
C12_Witness ==
    \E p \in Procs :
        /\ pc[p] = "m_exec"
        /\ i[p] = 2
        /\ Transactional(entries[p][1])
        /\ entries[p][1] \notin DOMAIN applied[p]
        /\ Tokens(entries[p][1]) \subseteq db
        /\ ~tx[p]
        /\ txBuf[p] = <<>>

-----------------------------------------------------------------------------
(* C13 *)

\* C13: when a statement of a migration that is not transactional fails in Migrate, the
\* effects of the statements executed before it are in the database, the failing one
\* and the later ones are not, and the migration has no bookkeeping row.
C13_NonTransactionalPartial ==
    \A p \in Procs :
        (/\ pc[p] = "m_ret"
         /\ result[p] = "err_migrating"
         /\ ~Transactional(entries[p][i[p]])) =>
            LET id == entries[p][i[p]] IN
            /\ db = ApplyAll(dbBefore[p], SubSeq(log[p][id], 1, k[p] - 1))
            /\ id \notin RowIds

\* The second statement failed and the effect of the first is in the database.
C13_Witness ==
    \E p \in Procs :
        /\ pc[p] = "m_ret"
        /\ result[p] = "err_migrating"
        /\ ~Transactional(entries[p][i[p]])
        /\ k[p] = 2
        /\ <<entries[p][i[p]], 1>> \in db
        /\ <<entries[p][i[p]], 2>> \notin db

-----------------------------------------------------------------------------
(* C14 *)

\* C14: every bookkeeping row written by a Migrate carries one more than the greatest
\* batch of the map the call loaded, 1 when the map was empty; the map and the batch do
\* not change while the call runs.
C14_OneBatchPerMigrate ==
    [][\A p \in Procs :
          /\ (pc[p] = "m_load" /\ pc'[p] = "m_loop") =>
                batch'[p] = Max({r[2] : r \in BagToSet(rows)} \cup {0}) + 1
          /\ (pc[p] = "m_insert" /\ pc'[p] = "m_loop") =>
                rows' = rows (+) SetToBag({<<entries[p][i[p]],
                                             Max(Range(applied[p]) \cup {0}) + 1>>})
          /\ pc[p] \in {"m_loop", "m_exec", "m_rollback", "m_commit", "m_insert"} =>
                /\ applied'[p] = applied[p]
                /\ batch'[p] = batch[p]]_vars

\* A Migrate that found no row has written two rows, both of batch 1.
C14_Witness ==
    \E p \in Procs :
        /\ pc[p] = "m_ret"
        /\ result[p] = "ok"
        /\ applied[p] = NoMap
        /\ Len(entries[p]) = 2
        /\ \A j \in 1..2 : CopiesIn(<<entries[p][j], 1>>, rows) = 1

-----------------------------------------------------------------------------
(* C15 *)

\* C15: while Migrate is at entry i, every entry before i was applied when the call
\* loaded the map or has been run and recorded by this call, and Up has not been called
\* on any entry after i.
C15_RegistryOrder ==
    \A p \in Procs :
        pc[p] \in {"m_loop", "m_exec", "m_rollback", "m_commit", "m_insert"} =>
            \A j \in 1..Len(entries[p]) :
                LET id == entries[p][j] IN
                /\ j < i[p] =>
                      \/ id \in DOMAIN applied[p]
                      \/ /\ CopiesIn(<<id, batch[p]>>, rows) = 1
                         /\ Tokens(id) \subseteq db
                /\ j > i[p] => log[p][id] = <<>>

\* The second entry is being executed after the first was run and recorded by this call.
C15_Witness ==
    \E p \in Procs :
        /\ pc[p] = "m_exec"
        /\ i[p] = 2
        /\ k[p] = 2
        /\ entries[p][1] \notin DOMAIN applied[p]
        /\ CopiesIn(<<entries[p][1], batch[p]>>, rows) = 1

-----------------------------------------------------------------------------
(* C16 *)

\* C16: while Rollback is at entry i, every entry of the last batch after i has had its
\* Down executed and its row deleted, and Down has not been called on any entry before i.
C16_ReverseOrder ==
    \A p \in Procs :
        pc[p] \in {"r_loop", "r_exec", "r_rollback", "r_commit", "r_delete"} =>
            \A j \in 1..Len(entries[p]) :
                LET id == entries[p][j] IN
                (id \in DOMAIN applied[p] /\ applied[p][id] = batch[p]) =>
                    /\ j > i[p] =>
                          /\ log[p][id] = DownOps(id)
                          /\ Tokens(id) \cap db = {}
                          /\ id \notin RowIds
                    /\ j < i[p] =>
                          /\ log[p][id] = <<>>
                          /\ id \in RowIds

\* Two entries are of the last batch, and the Down of the first runs after the second
\* was reverted.
C16_Witness ==
    \E p \in Procs :
        /\ pc[p] = "r_exec"
        /\ i[p] = 1
        /\ Len(entries[p]) = 2
        /\ \A j \in 1..2 : /\ entries[p][j] \in DOMAIN applied[p]
                           /\ applied[p][entries[p][j]] = batch[p]
        /\ entries[p][2] \notin RowIds
-----------------------------------------------------------------------------
(* C17 *)

\* C17 (amended): the SQLite generator returns a statement for DropTableIfExists,
\* RenameColumn and RenameTable, the MySQL generator for these and for DropColumn; every
\* other method panics. A statement that is returned is not empty and names the table.
C17_PartialGenerators ==
    genOut.done =>
        LET g == GeneratorOf(driver)
            m == genCall.method
        IN  /\ genOut.out.panic <=>
                  \/ m \in {"CreateTable", "AddColumn", "AddIndex"}
                  \/ m = "DropColumn" /\ g = "sqlite"
            /\ ~genOut.out.panic =>
                  /\ genOut.out.sql # <<>>
                  /\ genCall.table \in Range(genOut.out.sql)

\* The MySQL generator has returned a DROP COLUMN statement.
C17_Witness ==
    /\ genOut.done
    /\ GeneratorOf(driver) = "mysql"
    /\ genCall.method = "DropColumn"
    /\ ~genOut.out.panic
    /\ genOut.out.sql = <<"ALTER TABLE ", genCall.table, " DROP COLUMN ", genCall.a>>

\* C17 as claimed: both generators return a statement for DropTableIfExists,
\* RenameColumn and RenameTable only, and fail for every other method.
C17_OnlyDropAndRename ==
    genOut.done =>
        (genOut.out.panic <=>
            genCall.method \notin {"DropTableIfExists", "RenameColumn", "RenameTable"})
-----------------------------------------------------------------------------
(* C18 *)

\* The operations a generator has no statement for.
NotSupported(g, method) ==
    \/ g \in {"mysql", "sqlite"} /\ method \in {"CreateTable", "AddColumn", "AddIndex"}
    \/ g = "sqlite" /\ method = "DropColumn"

\* Process p takes the step.
Moves(p) ==
    pc'[p] # pc[p] \/ k'[p] # k[p] \/ i'[p] # i[p]

-----------------------------------------------------------------------------
(* C19 *)

\* C19: the log of a migration instance holds one Operation for each recorder call made
\* since the last Reset, in the order of the calls, each of the type and table of its
\* call and with the Unique flag of its method; right after a Reset it is empty.
C19_LogIsCallOrder ==
    /\ Len(Operations) = Len(recorded)
    /\ \A j \in 1..Len(recorded) :
          /\ Operations[j].type = recorded[j].method
          /\ Operations[j].table = recorded[j].table
          /\ Operations[j].index # <<>> <=> recorded[j].method \in {"AddIndex", "AddUniqueIndex"}
          /\ Operations[j].index # <<>> =>
                (Operations[j].index[1].unique <=> recorded[j].method = "AddUniqueIndex")

\* CreateTable then AddIndex were called, and the log holds exactly these two.
C19_Witness ==
    /\ Len(Operations) = 2
    /\ Operations[1].type = "CreateTable"
    /\ Operations[2].type = "AddIndex"
    /\ ~Operations[2].index[1].unique
-----------------------------------------------------------------------------
(* C20 *)

\* The timestamp at the end of a struct name.
TimestampOf(name) ==
    name[Len(name)]

\* C20: the Up of a migration authored later is folded after the Up of a migration
\* authored earlier, whatever the descriptions in their names; at the end every
\* migration of the directory was folded.
C20_ReplayInRegistryOrder ==
    /\ \A a, b \in 1..Len(replayed) :
          a < b => TimestampOf(replayed[a]) < TimestampOf(replayed[b])
    /\ (insPc = "done" /\ insErr = "nil") => Len(replayed) = Len(files)
-----------------------------------------------------------------------------
(* C21 *)

\* RunSchemaInspector has returned after its MkdirAll.
ReturnedPastMkdir ==
    /\ insPc = "done"
    /\ \/ insErr \in {"writing inspector", "running inspector", "parsing inspector output"}
       \/ insErr = "nil" /\ structs # <<>>

\* C21: when RunSchemaInspector returns after it has made its temporary directory, with
\* the tables and views or with an error of the write, of the child process or of the
\* decoding, the directory does not exist.
C21_TmpDirRemoved ==
    ReturnedPastMkdir => ~tmpDir

\* The payload did not decode, and the directory the call had made is gone.
C21_Witness ==
    /\ insPc = "done"
    /\ insErr = "parsing inspector output"
    /\ Len(replayed) = 2
    /\ ~tmpDir
-----------------------------------------------------------------------------
(* C22 *)

\* The middleware of a request from the outermost group to the route's own.
Layers(r) ==
    LET RECURSIVE Flat(_)
        Flat(gs) == IF gs = <<>> THEN <<>> ELSE Head(gs) \o Flat(Tail(gs))
    IN  Flat(r.groups) \o r.route

\* What must run for a request, in order: the code before next() of each layer from the
\* outermost on, down to the layer that does not call next() if there is one, the
\* controller if every layer called next(), and the code after next() of the layers that
\* called it, innermost first.
Nested(r) ==
    LET full == Layers(r)
        n == IF r.stop = "none" THEN Len(full)
             ELSE CHOOSE j \in 1..Len(full) : full[j] = r.stop
        m == IF r.stop = "none" THEN n ELSE n - 1
    IN  [j \in 1..n |-> [mw |-> full[j], at |-> "before"]]
        \o (IF r.stop = "none" THEN <<[mw |-> "handler", at |-> "run"]>> ELSE <<>>)
        \o [j \in 1..m |-> [mw |-> full[m + 1 - j], at |-> "after"]]

\* C22: what runs for a request is at every moment the beginning of the nested order,
\* group middleware from the outermost group inwards, then the route's own, then the
\* controller, then the code after each next() in the reverse order; when the response
\* is written all of it has run.
C22_NestedOrder ==
    /\ Len(order) <= Len(Nested(router))
    /\ order = SubSeq(Nested(router), 1, Len(order))
    /\ mwPc = "done" => order = Nested(router)

\* A route with its own middleware in a group in a group, every layer calling next():
\* the response is written after g1, h1, mw1, mw2, the controller, mw2, mw1, h1, g1.
C22_Witness ==
    /\ mwPc = "done"
    /\ router = [groups |-> <<<<"g1">>, <<"h1">>>>, route |-> <<"mw1", "mw2">>, stop |-> "none"]
    /\ Len(order) = 9
    /\ order[1] = [mw |-> "g1", at |-> "before"]
    /\ order[4] = [mw |-> "mw2", at |-> "before"]
    /\ order[5] = [mw |-> "handler", at |-> "run"]
    /\ order[6] = [mw |-> "mw2", at |-> "after"]
    /\ order[9] = [mw |-> "g1", at |-> "after"]
-----------------------------------------------------------------------------
(* C23 *)

\* C23: the quoted form of an identifier starts and ends with a double quote, and read
\* back it is the identifier, whatever double quotes the identifier holds.
C23_QuoteRoundTrip ==
    /\ qiPc \in {"read", "done"} =>
          /\ Len(quoted) >= 2
          /\ Head(quoted) = DoubleQuote
          /\ quoted[Len(quoted)] = DoubleQuote
    /\ qiPc = "done" => unquoted = ident

\* The identifier a"" went through: its quoted form has every double quote twice.
C23_Witness ==
    /\ qiPc = "done"
    /\ ident = <<97, DoubleQuote, DoubleQuote>>
    /\ quoted = <<DoubleQuote, 97, DoubleQuote, DoubleQuote, DoubleQuote, DoubleQuote,
                  DoubleQuote>>
    /\ unquoted = ident
-----------------------------------------------------------------------------
(* C24 *)

-----------------------------------------------------------------------------
(* C25 *)

\* C25: when Migrate returns, with nil or with an error, a migration of its entries has
\* a bookkeeping row exactly when the effects of its whole Up log are in the database.
C25_BookkeepingAgrees ==
    \A p \in Procs :
        pc[p] = "m_ret" =>
            \A id \in EntryIds(p) : (id \in RowIds) <=> (Tokens(id) \subseteq db)
-----------------------------------------------------------------------------
(* C26 *)

\* C26: with the Postgres driver the bookkeeping table never holds two rows of one
\* migration id, whatever Migrate, Rollback and Fresh calls the processes interleave.
C26_OneRowPerId ==
    IsPostgres(driver) =>
        \A r1, r2 \in BagToSet(rows) :
            /\ CopiesIn(r1, rows) = 1
            /\ r1[1] = r2[1] => r1 = r2

\* Both processes are in a Migrate of the same registry, one writing its rows and the
\* other waiting for the lock, and a Fresh has run before: each id has one row.
C26_Witness ==
    \E p, q \in Procs :
        /\ p # q
        /\ op[p] = "Fresh"
        /\ pc[p] = "m_insert"
        /\ i[p] = 2
        /\ op[q] = "Migrate"
        /\ pc[q] = "m_lock"
        /\ entries[p] = entries[q]
        /\ RowIds = {entries[p][1]}
-----------------------------------------------------------------------------
(* C27 *)

\* C27: with the Postgres driver, whenever a Migrate or a Rollback that has acquired the
\* lock is about to read or write the bookkeeping table, the table exists.
C27_TableExistsUnderLock ==
    IsPostgres(driver) =>
        \A p \in Procs :
            (/\ op[p] \in {"Migrate", "Rollback"}
             /\ pc[p] \in {"m_load", "m_insert", "r_load", "r_delete"}) => tableExists
-----------------------------------------------------------------------------
(* C28 *)

\* Process p is in a Rollback right after its own successful Migrate of the same
\* registry, no process has acted in between, and that Migrate applied a migration.
Undoes(p) ==
    /\ op[p] = "Rollback"
    /\ lastMigrated[p] # <<>>
    /\ entries[p] = lastMigrated[p]
    /\ \E id \in EntryIds(p) : id \notin DOMAIN lastApplied[p]

-----------------------------------------------------------------------------
(* C29 *)

\* The rows a Rollback found, without those of the greatest batch.
WithoutLastBatch(a) ==
    SetToBag({<<id, a[id]>> : id \in {x \in DOMAIN a : a[x] # Max(Range(a) \cup {0})}})

\* C29: over a registry that holds every applied id and with every database call
\* succeeding, each Rollback returns with the rows it found less those of the greatest
\* batch, one batch fewer when it found any; and with Rollback called more often than
\* there are batches, in the end no row is left and no effect of a migration is in the
\* database.
C29_RepeatedRollbackEmpties ==
    /\ [](\A p \in Procs :
            pc[p] = "r_ret" =>
                /\ rows = WithoutLastBatch(applied[p])
                /\ applied[p] # NoMap =>
                      Cardinality({r[2] : r \in BagToSet(rows)})
                          = Cardinality(Range(applied[p])) - 1)
    /\ <>[](rows = EmptyBag /\ db = {})

\* Two batches were recorded; the second Rollback, the only one running, has found the
\* row of batch 1 and removed it, and nothing is left.
C29_Witness ==
    \E p \in Procs :
        /\ pc[p] = "r_ret"
        /\ calls = 2
        /\ \A q \in Procs \ {p} : pc[q] = "idle"
        /\ DOMAIN applied[p] = {"A"}
        /\ batch[p] = 1
        /\ rows = EmptyBag
        /\ db = {}
-----------------------------------------------------------------------------
(* C30 *)

\* The positions where the next step of a process is a releaseLock.
Releasing ==
    {"m_ret", "r_ret", "f_release", "f_ret"}

\* C30: with the Postgres driver, a process that is about to release the advisory lock
\* holds it.
C30_ReleaseOnlyWhenHeld ==
    IsPostgres(driver) =>
        \A p \in Procs : pc[p] \in Releasing => lockHolder = p
====
